---- MODULE Spec2Model ----
(***************************************************************************)
(* A model of the A-language compiler (src/compiler.c, v2.4): the          *)
(* line-oriented translator with its block stack, symbol table, function   *)
(* table, error list and output buffers, and the driver that runs it.      *)
(*                                                                         *)
(* Text is modelled as TLA+ strings, character by character: ch(s, i) is   *)
(* the i-th character (1-based) and "" stands for the terminating NUL.     *)
(* Fixed-size C buffers (MAX_LINE, name[256], body[65536], ...) are far    *)
(* larger than any text the bounded inputs produce, so their truncation    *)
(* branches are not modelled.                                              *)
(***************************************************************************)
EXTENDS Integers, Sequences, FiniteSets, TLC

\* ---------------------------------------------------------------- bounds

\* Longest input file, in lines, of the block-structure corpora.
MaxLines == 3

\* Longest input file, in lines, of the error corpus.
MaxErrLines == 4

\* Longest input file, in lines, of the print corpus.
MaxPrintLines == 2

\* Longest input file, in lines, of the raw-statement corpus.
MaxRawLines == 3

\* Longest input file, in lines, of the time-function corpus.
MaxTimeLines == 2

\* Longest input file, in lines, of the table-capacity corpus: one line more
\* than the largest of the scaled table capacities.
MaxCapLines == 4

\* Capacity of the error list; 256 in the source (compiler.c:24), scaled
\* down so that the overflow branch of add_error is reachable.
MAX_ERRORS == 3

\* Capacity of the block stack; 256 in the source (compiler.c:22), scaled.
MAX_BLOCKS == 3

\* Capacity of the function table; 512 in the source (compiler.c:23), scaled.
MAX_FUNCS == 2

\* Capacity of the symbol table; 1024 in the source (compiler.c:21), scaled.
MAX_VARS == 3

\* ------------------------------------------------------ character helpers

Min(S) == CHOOSE m \in S : \A k \in S : m <= k

Max(S) == CHOOSE m \in S : \A k \in S : m >= k

ch(s, i) == IF i >= 1 /\ i <= Len(s) THEN SubSeq(s, i, i) ELSE ""

From(s, i) == SubSeq(s, i, Len(s))

Digits == {"0", "1", "2", "3", "4", "5", "6", "7", "8", "9"}

Letters ==
    {"a", "b", "c", "d", "e", "f", "g", "h", "i", "j", "k", "l", "m",
     "n", "o", "p", "q", "r", "s", "t", "u", "v", "w", "x", "y", "z",
     "A", "B", "C", "D", "E", "F", "G", "H", "I", "J", "K", "L", "M",
     "N", "O", "P", "Q", "R", "S", "T", "U", "V", "W", "X", "Y", "Z"}

isspace(c) == c \in {" ", "\t", "\n", "\r"}

isdigit(c) == c \in Digits

isalpha(c) == c \in Letters

isalnum(c) == c \in Letters \cup Digits

\* an identifier character, as in the scanners: isalnum(c) || c == '_'
IsIdentChar(c) == isalnum(c) \/ c = "_"

\* Where a C loop "while (*p && P(*p)) p++" started at index i stops: the
\* first of the indices stop, those >= i whose character does not satisfy P,
\* or the terminating NUL.
SpanEnd(s, i, stop) ==
    IF stop = {} THEN Max({Len(s) + 1, i}) ELSE Min(stop)

trim_left(s) == From(s, SpanEnd(s, 1, {k \in 1..Len(s) : ~isspace(ch(s, k))}))

\* what trim() leaves in the buffer it is given: trailing whitespace cut
\* after the last non-space character (nothing changes if all is space)
TrimInPlace(s) ==
    LET ns == {k \in 1..Len(s) : ~isspace(ch(s, k))}
    IN  IF ns = {} THEN s ELSE SubSeq(s, 1, Max(ns))

trim(s) == trim_left(TrimInPlace(s))

get_indent(line) ==
    LET e == SpanEnd(line, 1, {k \in 1..Len(line) : ch(line, k) \notin {" ", "\t"}})
    IN  (e - 1) + 3 * Cardinality({k \in 1..(e - 1) : ch(line, k) = "\t"})

starts_with(str, prefix) ==
    Len(str) >= Len(prefix) /\ SubSeq(str, 1, Len(prefix)) = prefix

\* index of the first / last occurrence of character c, 0 if absent
strchr(s, c) ==
    LET at == {k \in 1..Len(s) : ch(s, k) = c}
    IN  IF at = {} THEN 0 ELSE Min(at)

strrchr(s, c) ==
    LET at == {k \in 1..Len(s) : ch(s, k) = c}
    IN  IF at = {} THEN 0 ELSE Max(at)

\* index of the first occurrence of the substring sub, 0 if absent
strstr(s, sub) ==
    LET at == {k \in 1..Len(s) : starts_with(From(s, k), sub)}
    IN  IF at = {} THEN 0 ELSE Min(at)

is_empty_or_comment(line) ==
    LET p == trim_left(line) IN p = "" \/ ch(p, 1) = "#"

ends_with_brace(line) ==
    LET ns == {k \in 1..Len(line) : ~isspace(ch(line, k))}
    IN  ns # {} /\ ch(line, Max(ns)) = "{"

is_closing_brace(line) ==
    LET p == trim_left(line)
    IN  ch(p, 1) = "}" /\ (ch(p, 2) = "" \/ isspace(ch(p, 2)) \/ ch(p, 2) = "#")

\* cut a trailing '{' (and the whitespace before and after it)
strip_trailing_brace(line) ==
    LET ns == {k \in 1..Len(line) : ~isspace(ch(line, k))}
    IN  IF ns # {} /\ ch(line, Max(ns)) = "{"
        THEN LET before == {k \in ns : k < Max(ns)}
             IN  IF before = {} THEN "" ELSE SubSeq(line, 1, Max(before))
        ELSE line

\* cut the string at its last ':' (a NUL is written over it), if it has one
CutAtLastColon(p) ==
    IF strrchr(p, ":") > 0 THEN SubSeq(p, 1, strrchr(p, ":") - 1) ELSE p

\* the leading run of identifier characters: the scanners' name buffers
LeadingIdent(p) == SubSeq(p, 1, SpanEnd(p, 1, {k \in 1..Len(p) : ~IsIdentChar(ch(p, k))}) - 1)

RECURSIVE replace_time_funcs(_)
replace_time_funcs(line) ==
    IF line = "" THEN ""
    ELSE IF starts_with(line, "time.now()")
         THEN "(int)time(NULL)" \o replace_time_funcs(From(line, 11))
    ELSE IF starts_with(line, "date.now()")
         THEN "(int)time(NULL)" \o replace_time_funcs(From(line, 11))
    ELSE IF starts_with(line, "clock.now()")
         THEN "((double)clock() / CLOCKS_PER_SEC)"
                  \o replace_time_funcs(From(line, 12))
    ELSE ch(line, 1) \o replace_time_funcs(From(line, 2))

\* ------------------------------------------------------------ the state

VARIABLES
    corpus,          \* which bounded set of lines the input file is drawn from
    src,             \* history: the lines of the input file read so far
    g_mode,          \* CompileMode
    g_log_mode,      \* LogMode
    g_vars,          \* symbol table, g_var_count = Len(g_vars)
    g_blocks,        \* block stack, g_block_depth = Len(g_blocks)
    g_funcs,         \* function table, g_func_count = Len(g_funcs)
    g_errors,        \* error list, g_error_count = Len(g_errors)
    g_current_line,
    g_in_function,
    g_func_indent,
    g_main_code,     \* text of the pending main body
    g_output,        \* the assembled C source
    log,             \* the block and error events written to stderr
    error_called,    \* history: error() was called while translating the lines
    output_c,        \* the file output.c: "" while it has not been written
    gcc_result,      \* the C toolchain's run: "not run", "ok" or "failed"
    exit_status,     \* -1 while the process is running
    pc               \* "read", "drained", "exit", "crashed"

vars == <<corpus, src, g_mode, g_log_mode, g_vars, g_blocks, g_funcs, g_errors,
          g_current_line, g_in_function, g_func_indent, g_main_code,
          g_output, log, error_called, output_c, gcc_result, exit_status, pc>>

Modes == {"optimized", "raw", "debug", "debug_opt", "debug_raw"}

\* main's mode selection
LogModeOf(mode) ==
    CASE mode = "debug" -> "machine"
      [] mode \in {"debug_opt", "debug_raw"} -> "human"
      [] OTHER -> "none"

\* The translator's globals as one record, threaded through the handlers.
\* crashed is set when a handler's undefined behaviour kills the process.
G0 ==
    [mode |-> g_mode, log_mode |-> g_log_mode, vars |-> g_vars,
     blocks |-> g_blocks, funcs |-> g_funcs, errors |-> g_errors,
     line |-> g_current_line, in_function |-> g_in_function,
     func_indent |-> g_func_indent, main_code |-> g_main_code,
     log |-> log, error_called |-> error_called, crashed |-> FALSE]

is_raw_mode(G) == G.mode \in {"raw", "debug_raw"}

is_debug_mode(mode) == mode \in {"debug", "debug_opt", "debug_raw"}

\* an event line on stderr; nothing is written when logging is off
LogEvent(G, e) ==
    IF G.log_mode = "none" THEN G ELSE [G EXCEPT !.log = Append(@, e)]

\* ------------------------------------------------------- error handling

add_error(G, msg, severity) ==
    LET G1 == IF Len(G.errors) < MAX_ERRORS
              THEN [G EXCEPT !.errors =
                       Append(@, [message |-> msg, line_num |-> G.line,
                                  severity |-> severity])]
              ELSE G
        G2 == LogEvent(G1, [ev |-> IF severity = "error" THEN "ERR" ELSE "WARN",
                            line |-> G.line, orig |-> G.line])
    IN  [G2 EXCEPT !.error_called = @ \/ severity = "error"]

error(G, msg) == add_error(G, msg, "error")

warning(G, msg) == add_error(G, msg, "warning")

\* has_errors counting records of either severity
has_errors_any_severity(errors) == Len(errors) > 0

has_errors(errors) == \E i \in 1..Len(errors) : errors[i].severity = "error"

\* -------------------------------------------------------- output buffers

append_main(G, str) == [G EXCEPT !.main_code = @ \o str]

append_func(G, str) ==
    IF Len(G.funcs) > 0
    THEN [G EXCEPT !.funcs[Len(G.funcs)].body = @ \o str]
    ELSE G

emit_no_log(G, str) ==
    IF G.in_function THEN append_func(G, str) ELSE append_main(G, str)

\* ---------------------------------------------------------- symbol table

get_var_type(G, name) ==
    LET at == {i \in 1..Len(G.vars) : G.vars[i].name = name}
    IN  IF at = {} THEN "unknown" ELSE G.vars[Min(at)].type

\* register_var without the search for the name: every registration appends
register_var_appends_always(G, name, type, is_const) ==
    IF Len(G.vars) < MAX_VARS
    THEN [G EXCEPT !.vars =
             Append(@, [name |-> name, type |-> type, is_const |-> is_const])]
    ELSE error(G, "Maximum variable limit reached")

register_var(G, name, type, is_const) ==
    LET at == {i \in 1..Len(G.vars) : G.vars[i].name = name}
    IN  IF at # {}
        THEN [G EXCEPT !.vars[Min(at)].type = type,
                       !.vars[Min(at)].is_const = is_const]
        ELSE IF Len(G.vars) < MAX_VARS
        THEN [G EXCEPT !.vars =
                 Append(@, [name |-> name, type |-> type, is_const |-> is_const])]
        ELSE error(G, "Maximum variable limit reached")

IsNumeric(e, extra) ==
    \A i \in 1..Len(e) : isdigit(ch(e, i)) \/ ch(e, i) \in extra

infer_expr_type(G, expr) ==
    LET e == trim(expr)
    IN  IF ch(e, 1) = "\"" THEN "string"
        ELSE IF e = "true" \/ e = "false" THEN "bool"
        ELSE IF ch(e, 1) = "(" /\ strchr(e, ",") > 0 THEN "tuple"
        ELSE IF ch(e, 1) = "[" THEN "list"
        ELSE IF ch(e, 1) = "{" THEN "dict"
        ELSE IF strchr(e, ".") > 0 /\ strchr(e, "\"") = 0
                /\ IsNumeric(e, {".", "-"}) THEN "float"
        ELSE IF IsNumeric(e, {"-"}) /\ Len(e) > 0 THEN "int"
        ELSE IF get_var_type(G, LeadingIdent(e)) # "unknown"
             THEN get_var_type(G, LeadingIdent(e))
        \* the V[...] lookup that follows returns int on each of its paths
        ELSE "int"

\* ----------------------------------------------------------- block stack

push_block(G, indent, type, uses_braces) ==
    IF Len(G.blocks) < MAX_BLOCKS
    THEN LET G1 == [G EXCEPT !.blocks =
                       Append(@, [indent |-> indent, line_num |-> G.line,
                                  type |-> type, closed_by_end |-> FALSE,
                                  uses_braces |-> uses_braces])]
         IN  LogEvent(G1, [ev |-> "BLOCK_OPEN", line |-> G.line, orig |-> G.line])
    ELSE error(G, "Maximum block nesting depth exceeded")

\* close_block with the BLOCK_CLOSE event carrying the closing line
close_block_logs_closing_line(G, by_end, by_brace) ==
    IF Len(G.blocks) > 0
    THEN LET top == G.blocks[Len(G.blocks)]
             G1 == LogEvent(G, [ev |-> "BLOCK_CLOSE", line |-> G.line,
                                orig |-> G.line])
             G2 == [G1 EXCEPT !.in_function =
                                 IF top.type = "func" THEN FALSE ELSE @,
                              !.blocks = SubSeq(@, 1, Len(@) - 1)]
         IN  emit_no_log(G2, "}\n")
    ELSE G

close_block(G, by_end, by_brace) ==
    IF Len(G.blocks) > 0
    THEN LET top == G.blocks[Len(G.blocks)]
             G1 == LogEvent(G, [ev |-> "BLOCK_CLOSE", line |-> G.line,
                                orig |-> top.line_num])
             G2 == [G1 EXCEPT !.in_function =
                                 IF top.type = "func" THEN FALSE ELSE @,
                              !.blocks = SubSeq(@, 1, Len(@) - 1)]
         IN  emit_no_log(G2, "}\n")
    ELSE G

close_brace_block(G) ==
    IF Len(G.blocks) > 0
    THEN close_block(IF ~G.blocks[Len(G.blocks)].uses_braces
                     THEN warning(G, "Closing '}' for block not opened with '{'")
                     ELSE G,
                     FALSE, TRUE)
    ELSE error(G, "'}' without matching '{'")

RECURSIVE auto_close_blocks_to_indent(_, _)
auto_close_blocks_to_indent(G, new_indent) ==
    IF Len(G.blocks) > 0
       /\ G.blocks[Len(G.blocks)].indent >= new_indent
       /\ ~G.blocks[Len(G.blocks)].closed_by_end
       /\ ~G.blocks[Len(G.blocks)].uses_braces
    THEN IF G.blocks[Len(G.blocks)].type = "func"
         THEN \* closes the function and leaves the loop
              IF new_indent <= G.blocks[Len(G.blocks)].indent
              THEN close_block(G, FALSE, FALSE)
              ELSE G
         ELSE auto_close_blocks_to_indent(close_block(G, FALSE, FALSE), new_indent)
    ELSE G

\* ---------------------------------------------------- statement handlers

\* the C type and semantic type selected by a declaration's type keyword
DeclTypes ==
    <<[kw |-> "int ", c |-> "int", vt |-> "int"],
      [kw |-> "float ", c |-> "float", vt |-> "float"],
      [kw |-> "bool ", c |-> "bool", vt |-> "bool"],
      [kw |-> "string ", c |-> "char*", vt |-> "string"],
      [kw |-> "list ", c |-> "List", vt |-> "list"],
      [kw |-> "dict ", c |-> "Dict", vt |-> "dict"],
      [kw |-> "tuple ", c |-> "Tuple", vt |-> "tuple"]>>

DefaultValue(vt) ==
    CASE vt = "int" -> "0"
      [] vt = "string" -> "NULL"
      [] vt = "list" -> "new_list()"
      [] vt = "dict" -> "new_dict()"
      [] vt = "tuple" -> "new_tuple()"
      [] OTHER -> ""

handle_variable_decl(G, line, is_const) ==
    LET p0 == IF is_const THEN trim_left(From(line, 6)) ELSE line
        ks == {i \in 1..Len(DeclTypes) : starts_with(p0, DeclTypes[i].kw)}
    IN  IF ks = {} THEN error(G, "Unknown type in variable declaration")
        ELSE
        LET d    == DeclTypes[Min(ks)]
            p1   == trim_left(From(p0, Len(d.kw) + 1))
            name == LeadingIdent(p1)
            p2   == trim_left(From(p1, Len(name) + 1))
            cq   == IF is_const THEN "const " ELSE ""
        IN  IF name = "" THEN error(G, "Missing variable name in declaration")
            ELSE
            LET G1 == register_var(G, name, d.vt, is_const)
            IN  IF ch(p2, 1) = "="
                THEN LET p3 == trim_left(From(p2, 2))
                         G2 == IF p3 = ""
                               THEN error(G1, "Missing value after '=' in variable declaration")
                               ELSE G1
                         value == IF p3 = "" THEN "0" ELSE replace_time_funcs(p3)
                     IN  emit_no_log(G2, cq \o d.c \o " " \o name \o " = " \o value \o ";\n")
                ELSE IF DefaultValue(d.vt) # ""
                THEN emit_no_log(G1, cq \o d.c \o " " \o name \o " = "
                                        \o DefaultValue(d.vt) \o ";\n")
                ELSE emit_no_log(G1, cq \o d.c \o " " \o name \o ";\n")

\* the C statement handle_print's switch selects for an expression type
PrintStatement(type, expr) ==
    CASE type = "string" -> "printf(\"%s\\n\", " \o expr \o ");\n"
      [] type = "bool" ->
            "printf(\"%s\\n\", (" \o expr \o ") ? \"true\" : \"false\");\n"
      [] type = "float" -> "printf(\"%f\\n\", " \o expr \o ");\n"
      [] type = "list" -> "print_list(&" \o expr \o ");\n"
      [] type = "tuple" -> "print_tuple(&" \o expr \o ");\n"
      [] OTHER -> "printf(\"%d\\n\", (int)(" \o expr \o "));\n"

handle_print(G, line) ==
    LET start == strchr(line, "(")
        end   == strrchr(line, ")")
    IN  IF start = 0 THEN error(G, "Missing '(' in print statement")
        ELSE IF end = 0 THEN error(G, "Missing ')' in print statement")
        ELSE
        \* trim(expr) is called for its effect on the buffer only
        LET expr0 == TrimInPlace(SubSeq(line, start + 1, end - 1))
        IN  IF expr0 = "" THEN error(G, "Empty print statement")
            ELSE LET expr == replace_time_funcs(expr0)
                 IN  emit_no_log(G, PrintStatement(infer_expr_type(G, expr), expr))

\* The condition text of an if / elif / while header: p is the line after the
\* keyword; "" when the condition is missing.
HeaderCondition(p, has_brace) ==
    trim(CutAtLastColon(IF has_brace THEN strip_trailing_brace(trim_left(p))
                                     ELSE trim_left(p)))

\* With the condition missing the handlers point p at a string literal and
\* pass it to replace_time_funcs, which writes into it: undefined behaviour.
\* ub_crash chooses between the two outcomes a build can produce: the write
\* faults and the process dies there, or it succeeds and leaves the same text.
handle_if(G, line, has_brace, ub_crash) ==
    LET cond == HeaderCondition(From(trim_left(line), 3), has_brace)
        G1   == IF cond = "" THEN error(G, "Missing condition in if statement") ELSE G
        p    == IF cond = "" THEN "1" ELSE replace_time_funcs(cond)
    IN  IF cond = "" /\ ub_crash THEN [G1 EXCEPT !.crashed = TRUE]
        ELSE push_block(emit_no_log(G1, "if (" \o p \o ") {\n"),
                        get_indent(line), "if", has_brace)

\* elif and else rewrite the top entry of the stack in place
ChainTop(G, type, has_brace) ==
    IF Len(G.blocks) > 0
    THEN [G EXCEPT !.blocks[Len(G.blocks)].type = type,
                   !.blocks[Len(G.blocks)].uses_braces = has_brace]
    ELSE G

NoOpenIf(G) ==
    \/ Len(G.blocks) = 0
    \/ /\ G.blocks[Len(G.blocks)].type # "if"
       /\ G.blocks[Len(G.blocks)].type # "elif"

handle_elif(G, line, has_brace, ub_crash) ==
    LET G1   == IF NoOpenIf(G) THEN error(G, "'elif' without matching 'if'") ELSE G
        cond == HeaderCondition(From(trim_left(line), 5), has_brace)
        G2   == IF cond = "" THEN error(G1, "Missing condition in elif statement") ELSE G1
        p    == IF cond = "" THEN "1" ELSE replace_time_funcs(cond)
    IN  IF cond = "" /\ ub_crash THEN [G2 EXCEPT !.crashed = TRUE]
        ELSE ChainTop(emit_no_log(G2, "} else if (" \o p \o ") {\n"),
                      "elif", has_brace)

handle_else(G, line, has_brace) ==
    LET G1 == IF NoOpenIf(G)
              THEN error(G, "'else' without matching 'if' or 'elif'")
              ELSE G
    IN  ChainTop(emit_no_log(G1, "} else {\n"), "else", has_brace)

handle_while(G, line, has_brace, ub_crash) ==
    LET cond == HeaderCondition(From(trim_left(line), 6), has_brace)
        G1   == IF cond = "" THEN error(G, "Missing condition in while statement") ELSE G
        p    == IF cond = "" THEN "0" ELSE replace_time_funcs(cond)
    IN  IF cond = "" /\ ub_crash THEN [G1 EXCEPT !.crashed = TRUE]
        ELSE push_block(emit_no_log(G1, "while (" \o p \o ") {\n"),
                        get_indent(line), "while", has_brace)

\* the header text emitted for "for V in E", by the iterable's type
ForInHeader(iter_type, var, iterable) ==
    LET idx == "_" \o var \o "_idx"
        str == "_" \o var \o "_str"
    IN  CASE iter_type = "string" ->
               "{ char* " \o str \o " = " \o iterable \o ";\n"
               \o "for (int " \o idx \o " = 0; " \o str \o "[" \o idx \o "]; "
               \o idx \o "++) {\n"
               \o "    char " \o var \o " = " \o str \o "[" \o idx \o "];\n"
          [] iter_type \in {"list", "tuple"} ->
               "for (int " \o idx \o " = 0; " \o idx \o " < " \o iterable
               \o ".size; " \o idx \o "++) {\n"
               \o "    int " \o var \o " = " \o iterable \o ".data[" \o idx \o "];\n"
          [] iter_type = "dict" ->
               "for (int " \o idx \o " = 0; " \o idx \o " < " \o iterable
               \o ".size; " \o idx \o "++) {\n"
               \o "    char* " \o var \o " = " \o iterable \o ".keys[" \o idx \o "];\n"
          [] OTHER ->
               "{ char* " \o str \o " = (char*)(" \o iterable \o ");\n"
               \o "for (int " \o idx \o " = 0; " \o str \o " && " \o str
               \o "[" \o idx \o "]; " \o idx \o "++) {\n"
               \o "    char " \o var \o " = " \o str \o "[" \o idx \o "];\n"

\* error(G, msg) when cond holds
ErrorIf(G, cond, msg) == IF cond THEN error(G, msg) ELSE G

OrElse(text, fallback) == IF text = "" THEN fallback ELSE text

\* the text after a leading identifier and the whitespace that follows it
AfterIdent(p) == trim_left(From(p, Len(LeadingIdent(p)) + 1))

\* for-in: the text after the keyword "in", if it is there
AfterIn(p) == IF starts_with(p, "in") THEN trim_left(From(p, 3)) ELSE p

\* for-in: the iterable runs up to ':', '{', whitespace or the end
IterableOf(p) ==
    SubSeq(p, 1, SpanEnd(p, 1, {k \in 1..Len(p) :
                                   ch(p, k) \in {":", "{"} \/ isspace(ch(p, k))}) - 1)

ForInType(G, iterable) ==
    IF ch(iterable, 1) = "\"" THEN "string" ELSE infer_expr_type(G, iterable)

\* the switch of handle_for_in: register the loop variable, emit the header
ForInEmit(G, iter_type, var, iterable) ==
    emit_no_log(register_var(G, var,
                             IF iter_type = "dict" THEN "string" ELSE "int",
                             FALSE),
                ForInHeader(iter_type, var, iterable))

handle_for_in(G, line, has_brace) ==
    LET p0 == trim_left(From(trim_left(line), 4))
        p1 == AfterIdent(p0)
        p2 == AfterIn(p1)
        G1 == ErrorIf(G, LeadingIdent(p0) = "",
                      "Missing loop variable in for-in statement")
        G2 == ErrorIf(G1, ~starts_with(p1, "in"),
                      "Missing 'in' keyword in for-in statement")
        G3 == ErrorIf(G2, IterableOf(p2) = "",
                      "Missing iterable in for-in statement")
        iterable == OrElse(IterableOf(p2), "\"\"")
    IN  push_block(ForInEmit(G3, ForInType(G3, iterable),
                             OrElse(LeadingIdent(p0), "_item"), iterable),
                   get_indent(line), "for_in", has_brace)

\* for-to: the text after '=', if it is there
AfterEq(p) == trim_left(IF ch(p, 1) = "=" THEN From(p, 2) ELSE p)

\* for-to: the start value runs up to whitespace or the text "to"
StartEnd(p) ==
    LET stop == {k \in 1..Len(p) :
                   isspace(ch(p, k)) \/ starts_with(From(p, k), "to")}
    IN  IF stop = {} THEN Len(p) + 1 ELSE Min(stop)

StartOf(p) == SubSeq(p, 1, StartEnd(p) - 1)

AfterStart(p) == trim_left(From(p, StartEnd(p)))

AfterTo(p) == IF starts_with(p, "to") THEN From(p, 3) ELSE p

\* for-to: the step between '(' and ')', for p starting with '('
StepEnd(p) == SpanEnd(p, 2, {k \in 2..Len(p) : ch(p, k) = ")"})

StepOf(p) == IF ch(p, 1) = "(" THEN SubSeq(p, 2, StepEnd(p) - 1) ELSE "1"

AfterStep(p) ==
    IF ch(p, 1) = "("
    THEN From(p, IF ch(p, StepEnd(p)) = ")" THEN StepEnd(p) + 1 ELSE StepEnd(p))
    ELSE p

ForHeader(var, start_val, end_val, step) ==
    "for (int " \o var \o " = " \o start_val \o "; " \o var \o " <= "
    \o end_val \o "; " \o var
    \o (IF step = "1" THEN "++" ELSE " += " \o step) \o ") {\n"

handle_for(G, line, has_brace) ==
    LET p0 == trim_left(From(trim_left(line), 4))
    IN  IF strstr(p0, " in ") > 0 THEN handle_for_in(G, line, has_brace)
        ELSE
        LET p1 == trim(CutAtLastColon(IF has_brace THEN strip_trailing_brace(p0)
                                                   ELSE p0))
            p2 == AfterIdent(p1)
            p3 == AfterEq(p2)
            p4 == AfterStart(p3)
            p5 == AfterTo(p4)
            p6 == AfterStep(p5)
            G1 == ErrorIf(G, LeadingIdent(p1) = "",
                          "Missing loop variable in for statement")
            G2 == ErrorIf(G1, ch(p2, 1) # "=", "Missing '=' in for loop")
            G3 == ErrorIf(G2, StartOf(p3) = "", "Missing start value in for loop")
            G4 == ErrorIf(G3, ~starts_with(p4, "to"),
                          "Missing 'to' keyword in for loop")
            G5 == ErrorIf(G4, ch(p5, 1) = "(" /\ ch(p5, StepEnd(p5)) # ")",
                          "Missing ')' in for loop step")
            G6 == ErrorIf(G5, StepOf(p5) = "", "Empty step value in for loop")
            G7 == ErrorIf(G6, trim(trim_left(p6)) = "",
                          "Missing end value in for loop")
            var  == OrElse(LeadingIdent(p1), "_i")
            text == ForHeader(var,
                              replace_time_funcs(OrElse(StartOf(p3), "0")),
                              replace_time_funcs(OrElse(trim(trim_left(p6)), "0")),
                              replace_time_funcs(OrElse(StepOf(p5), "1")))
        IN  push_block(register_var(emit_no_log(G7, text), var, "int", FALSE),
                       get_indent(line), "for", has_brace)

\* one error per function already defined under this name
RECURSIVE ReportDuplicates(_, _, _)
ReportDuplicates(G, name, j) ==
    IF j > Len(G.funcs) THEN G
    ELSE ReportDuplicates(
             IF G.funcs[j].name = name
             THEN error(G, "Duplicate function definition: '" \o name \o "'")
             ELSE G,
             name, j + 1)

handle_func(G, line, has_brace) ==
    LET p0 == trim_left(From(trim_left(line), 5))
        p1 == IF has_brace THEN strip_trailing_brace(p0) ELSE p0
        p2 == IF strchr(p1, ":") > 0 THEN SubSeq(p1, 1, strchr(p1, ":") - 1) ELSE p1
        name == LeadingIdent(p2)
    IN  IF name = "" THEN error(G, "Missing function name")
        ELSE IF name = "main"
        THEN [warning(G, "'func main' is ignored - compiler generates its own main()")
                 EXCEPT !.in_function = FALSE]
        ELSE
        LET G1 == ReportDuplicates(G, name, 1)
            G2 == IF Len(G1.funcs) < MAX_FUNCS
                  THEN [G1 EXCEPT !.funcs = Append(@, [name |-> name, body |-> ""])]
                  ELSE error(G1, "Maximum function limit reached")
            G3 == [G2 EXCEPT !.in_function = TRUE, !.func_indent = get_indent(line)]
        IN  push_block(G3, get_indent(line), "func", has_brace)

handle_append(G, line) ==
    LET open  == strchr(line, "(")
        close == strrchr(line, ")")
    IN  IF open = 0 THEN error(G, "Missing '(' in append statement")
        ELSE IF close = 0 THEN error(G, "Missing ')' in append statement")
        ELSE
        LET args  == SubSeq(line, open + 1, close - 1)
            comma == strchr(args, ",")
        IN  IF comma = 0
            THEN error(G, "Missing ',' in append - expected: append(list, value)")
            ELSE
            LET list_name == trim(SubSeq(args, 1, comma - 1))
                value     == trim(From(args, comma + 1))
                lt        == get_var_type(G, list_name)
            IN  IF list_name = "" THEN error(G, "Missing list name in append")
                ELSE IF value = "" THEN error(G, "Missing value in append")
                ELSE emit_no_log(
                         IF lt # "list" /\ lt # "unknown"
                         THEN error(G, "'" \o list_name \o "' is not a list")
                         ELSE G,
                         "list_append(&" \o list_name \o ", "
                             \o replace_time_funcs(value) \o ");\n")

\* After close_block the slot g_blocks[g_block_depth] still holds the block
\* just popped; its type is what the for_in test reads.
handle_end(G) ==
    IF Len(G.blocks) > 0
    THEN LET top == G.blocks[Len(G.blocks)]
             G1  == IF top.uses_braces
                    THEN warning(G, "Using 'end' to close block opened with '{' - use '}' instead")
                    ELSE G
             G2  == close_block(G1, TRUE, FALSE)
         IN  IF top.type = "for_in" THEN emit_no_log(G2, "}\n") ELSE G2
    ELSE error(G, "'end' without matching block")

\* the copy loop of handle_raw_statement: V[ becomes V.data[ for a list V
RECURSIVE RewriteListIndex(_, _)
RewriteListIndex(G, in) ==
    IF in = "" THEN ""
    ELSE IF isalpha(ch(in, 1)) \/ ch(in, 1) = "_"
    THEN LET var  == LeadingIdent(in)
             rest == From(in, Len(var) + 1)
         IN  IF ch(rest, 1) = "[" /\ get_var_type(G, var) = "list"
             THEN var \o ".data" \o RewriteListIndex(G, rest)
             ELSE var \o RewriteListIndex(G, rest)
    ELSE ch(in, 1) \o RewriteListIndex(G, From(in, 2))

\* handle_raw_statement without its copy loop
handle_raw_statement_verbatim(G, line) ==
    LET p == trim(line)
    IN  IF p = "" THEN G
        ELSE emit_no_log(G, replace_time_funcs(p) \o ";\n")

handle_raw_statement(G, line) ==
    LET p == trim(line)
    IN  IF p = "" THEN G
        ELSE emit_no_log(G, RewriteListIndex(G, replace_time_funcs(p)) \o ";\n")

\* ------------------------------------------------------------ dispatcher

\* the copy of the line process_line works on: cut at the first '#'
StripComment(original_line) ==
    IF strchr(original_line, "#") > 0
    THEN SubSeq(original_line, 1, strchr(original_line, "#") - 1)
    ELSE original_line

\* the branch of process_line a line takes
LineKind(original_line) ==
    LET line == StripComment(original_line)
        t    == trim(line)
    IN  IF is_empty_or_comment(line) THEN "empty"
        ELSE IF is_closing_brace(t) THEN "close_brace"
        ELSE IF t = "end" THEN "end"
        ELSE IF starts_with(t, "const ") THEN "const_decl"
        ELSE IF \E i \in 1..Len(DeclTypes) : starts_with(t, DeclTypes[i].kw)
             THEN "decl"
        ELSE IF starts_with(t, "print(") THEN "print"
        ELSE IF starts_with(t, "if ") THEN "if"
        ELSE IF starts_with(t, "elif ") THEN "elif"
        ELSE IF starts_with(t, "else:") \/ starts_with(t, "else {") \/ t = "else"
             THEN "else"
        ELSE IF starts_with(t, "while ") THEN "while"
        ELSE IF starts_with(t, "for ") THEN "for"
        ELSE IF starts_with(t, "func ") THEN "func"
        ELSE IF starts_with(t, "append(") THEN "append"
        ELSE IF starts_with(t, "dset(") \/ starts_with(t, "dget(") THEN "dict_op"
        ELSE "raw"

\* process_line up to its dispatch: the line is counted and, for a line that
\* is not empty, '}' or "end", the indent-discipline blocks it dedents out of
\* are closed (not in raw modes, and not before elif / else)
CountLine(G) == [G EXCEPT !.line = @ + 1]

Trimmed(original_line) == trim(StripComment(original_line))

HasBrace(original_line) == ends_with_brace(Trimmed(original_line))

AutoClose(G, original_line) ==
    IF ~is_raw_mode(G) /\ Len(G.blocks) > 0
       /\ ~starts_with(Trimmed(original_line), "elif")
       /\ ~starts_with(Trimmed(original_line), "else")
    THEN auto_close_blocks_to_indent(CountLine(G),
                                     get_indent(StripComment(original_line)))
    ELSE CountLine(G)

\* DrainBlocks reporting every open block, whatever the mode
RECURSIVE DrainBlocks_reports_in_every_mode(_)
DrainBlocks_reports_in_every_mode(G) ==
    IF Len(G.blocks) > 0
    THEN LET top == G.blocks[Len(G.blocks)]
             G1  == [G EXCEPT !.line = top.line_num]
             G2  == error(G1, "Unclosed '" \o top.type
                              \o "' block started at line "
                              \o ToString(top.line_num) \o " - missing '"
                              \o (IF top.uses_braces THEN "}" ELSE "end")
                              \o "'")
         IN  DrainBlocks_reports_in_every_mode(close_block(G2, FALSE, FALSE))
    ELSE G

\* compile_file after its last line: report and close what is still open
RECURSIVE DrainBlocks(_)
DrainBlocks(G) ==
    IF Len(G.blocks) > 0
    THEN LET top == G.blocks[Len(G.blocks)]
             G1  == [G EXCEPT !.line = top.line_num]
             G2  == IF is_raw_mode(G1) \/ top.uses_braces
                    THEN error(G1, "Unclosed '" \o top.type
                                   \o "' block started at line "
                                   \o ToString(top.line_num) \o " - missing '"
                                   \o (IF top.uses_braces THEN "}" ELSE "end")
                                   \o "'")
                    ELSE G1
         IN  DrainBlocks(close_block(G2, FALSE, FALSE))
    ELSE G

compile_file_end(G) == [DrainBlocks(G) EXCEPT !.line = G.line]

\* the runtime library text, abbreviated to its first lines
STDLIB == "#include <stdio.h>\n#include <stdlib.h>\n"

RECURSIVE Prototypes(_, _)
Prototypes(funcs, i) ==
    IF i > Len(funcs) THEN ""
    ELSE "void " \o funcs[i].name \o "(void);\n" \o Prototypes(funcs, i + 1)

RECURSIVE FunctionBodies(_, _)
FunctionBodies(funcs, i) ==
    IF i > Len(funcs) THEN ""
    ELSE "void " \o funcs[i].name \o "(void) {\n" \o funcs[i].body \o "}\n\n"
         \o FunctionBodies(funcs, i + 1)

\* generate_output without the runtime library in front
UserCode(funcs, main_code) ==
    Prototypes(funcs, 1) \o "\n" \o FunctionBodies(funcs, 1)
    \o "int main(void) {\n" \o main_code \o "    return 0;\n" \o "}\n"

generate_output(funcs, main_code) == STDLIB \o UserCode(funcs, main_code)

\* ------------------------------------------------------------ the inputs

\* if-chains and nesting under the three closing disciplines
ChainLines ==
    {"if a:", " if b:", " while b:", "\tif b:", "if a {", "elif c:", "else:",
     "else {", "b = 1", "  b = 2", "end", "}"}

\* for-to and for-in loops over declared and undeclared iterables
LoopLines ==
    {"string s", "list L", "for c in s:", "for v in L:", "for c in \"ab\" {",
     "for i = 1 to(2) 9:", " print(c)", "b = 1", "end", "}",
     "append(L, time.now())", "dset(d, k, 1)"}

\* function definitions, calls and the statements inside them
FuncLines ==
    {"func f:", "func g:", " func h:", "func f {", "func main", " func main:",
     " b = 1", "b = 1", "f()", "if a:", "end", "}"}

\* lines the handlers warn about or reject, among lines they accept
ErrorLines ==
    {"func main", "end", "if :", "elif :", "while b:", "while :", "}",
     "b = 1 # set b", ""}

\* print over every declared type of v, literals and an undeclared name
PrintLines ==
    {"int v", "float v", "bool v", "string v", "list v", "dict v", "tuple v",
     "const int k = 2", "print(v)", "print(v[1])", "print(v + 1)", "print(u)",
     "print(\"hi\")", "print(true)", "print(1.5)", "print(-7)", "print([1])",
     "print((1,2))", "print( k )", "print()"}

\* raw statements indexing declared and undeclared names
RawLines ==
    {"list L", "int L", "for L = 0 to 1:", "L[0] = L[1] + x[2]", "xL[0] = L",
     "L [0] = 1L[0]", "_L[0] = L[L[1]]", "b = \"L[0]\""}

\* the time functions in each statement form the dispatcher recognises
TimeLines ==
    {"int t = time.now()", "print(clock.now())", "if date.now() > 0:",
     "elif time.now():", "while clock.now() < 1:", "for i = time.now() to 9:",
     "for c in date.now():", "append(L, date.now())", "dset(d, k, time.now())",
     "dget(d, clock.now())", "x = time.now() + date.now()", "else:"}

\* lines that fill the symbol table, the block stack and the error list: four
\* variable names, block headers closed by '}' only, a declaration that is
\* registered and rejected, and append on a name of each registration
CapacityLines ==
    {"int a =", "list a", "const int b = 1", "for c in a {", "for d = 0 to 1 {",
     "func f {", "append(a, 1)"}

Corpora == {"chain", "loop", "func", "error", "print", "raw", "time", "capacity"}

Lines(c) ==
    CASE c = "chain" -> ChainLines
      [] c = "loop" -> LoopLines
      [] c = "func" -> FuncLines
      [] c = "error" -> ErrorLines
      [] c = "print" -> PrintLines
      [] c = "raw" -> RawLines
      [] c = "time" -> TimeLines
      [] c = "capacity" -> CapacityLines

Kinds ==
    {"empty", "close_brace", "end", "const_decl", "decl", "print", "if", "elif",
     "else", "while", "for", "func", "append", "dict_op", "raw"}

\* the lines of a corpus that take a given branch of process_line
LinesOfKind ==
    [c \in Corpora |-> [k \in Kinds |-> {l \in Lines(c) : LineKind(l) = k}]]

LineLimit(c) ==
    CASE c = "print" -> MaxPrintLines
      [] c = "raw" -> MaxRawLines
      [] c = "time" -> MaxTimeLines
      [] c = "capacity" -> MaxCapLines
      [] c = "error" -> MaxErrLines
      [] OTHER -> MaxLines

\* ----------------------------------------------------------- transitions

\* the modes each corpus is compiled in: the capacity corpus in one mode with
\* auto-close and one without, the others in every mode
ModesOf(c) == IF c = "capacity" THEN {"optimized", "raw"} ELSE Modes

\* main's initialisation, for each mode and each corpus of input files
Init ==
    /\ corpus \in Corpora
    /\ src = <<>>
    /\ g_mode \in ModesOf(corpus)
    /\ g_log_mode = LogModeOf(g_mode)
    /\ g_vars = <<>>
    /\ g_blocks = <<>>
    /\ g_funcs = <<>>
    /\ g_errors = <<>>
    /\ g_current_line = 0
    /\ g_in_function = FALSE
    /\ g_func_indent = 0
    /\ g_main_code = ""
    /\ g_output = ""
    /\ log = <<>>
    /\ error_called = FALSE
    /\ output_c = ""
    /\ gcc_result = "not run"
    /\ exit_status = -1
    /\ pc = "read"

\* a killed process: SIGSEGV, reported by the shell as 128 + 11
CrashStatus == 128 + 11

\* the globals after a step of the translator, which continues at next_pc
Commit(G, next_pc) ==
    /\ g_vars' = G.vars
    /\ g_blocks' = G.blocks
    /\ g_funcs' = G.funcs
    /\ g_errors' = G.errors
    /\ g_current_line' = G.line
    /\ g_in_function' = G.in_function
    /\ g_func_indent' = G.func_indent
    /\ g_main_code' = G.main_code
    /\ log' = G.log
    /\ error_called' = G.error_called
    /\ pc' = IF G.crashed THEN "crashed" ELSE next_pc
    /\ exit_status' = IF G.crashed THEN CrashStatus ELSE exit_status
    /\ UNCHANGED <<corpus, g_mode, g_log_mode, g_output, output_c, gcc_result>>

\* compile_file has read the line l and process_line has left the globals G
ReadLine(l, G) ==
    /\ src' = Append(src, l)
    /\ Commit(G, "read")

\* fgets has another line to return
MoreInput == pc = "read" /\ g_current_line < LineLimit(corpus)

\* an empty or comment-only line: only the line counter moves
SkipLine ==
    /\ MoreInput
    /\ \E l \in LinesOfKind[corpus]["empty"] : ReadLine(l, CountLine(G0))

\* a line starting with '}'
CloseBraceLine ==
    /\ MoreInput
    /\ \E l \in LinesOfKind[corpus]["close_brace"] :
          ReadLine(l, close_brace_block(CountLine(G0)))

\* the line "end"
EndLine ==
    /\ MoreInput
    /\ \E l \in LinesOfKind[corpus]["end"] : ReadLine(l, handle_end(CountLine(G0)))

\* a declaration starting with "const "
ConstDeclLine ==
    /\ MoreInput
    /\ \E l \in LinesOfKind[corpus]["const_decl"] :
          ReadLine(l, handle_variable_decl(AutoClose(G0, l), Trimmed(l), TRUE))

\* a declaration starting with a type keyword
DeclLine ==
    /\ MoreInput
    /\ \E l \in LinesOfKind[corpus]["decl"] :
          ReadLine(l, handle_variable_decl(AutoClose(G0, l), Trimmed(l), FALSE))

\* print(...)
PrintLine ==
    /\ MoreInput
    /\ \E l \in LinesOfKind[corpus]["print"] :
          ReadLine(l, handle_print(AutoClose(G0, l), Trimmed(l)))

\* an if header; the handler is given the line as read, comment included
IfLine ==
    /\ MoreInput
    /\ \E l \in LinesOfKind[corpus]["if"], ub_crash \in BOOLEAN :
          ReadLine(l, handle_if(AutoClose(G0, l), l, HasBrace(l), ub_crash))

\* an elif header
ElifLine ==
    /\ MoreInput
    /\ \E l \in LinesOfKind[corpus]["elif"], ub_crash \in BOOLEAN :
          ReadLine(l, handle_elif(AutoClose(G0, l), Trimmed(l), HasBrace(l), ub_crash))

\* an else header
ElseLine ==
    /\ MoreInput
    /\ \E l \in LinesOfKind[corpus]["else"] :
          ReadLine(l, handle_else(AutoClose(G0, l), Trimmed(l), HasBrace(l)))

\* a while header; the handler is given the line as read
WhileLine ==
    /\ MoreInput
    /\ \E l \in LinesOfKind[corpus]["while"], ub_crash \in BOOLEAN :
          ReadLine(l, handle_while(AutoClose(G0, l), l, HasBrace(l), ub_crash))

\* a for-to or for-in header; the handler is given the line as read
ForLine ==
    /\ MoreInput
    /\ \E l \in LinesOfKind[corpus]["for"] :
          ReadLine(l, handle_for(AutoClose(G0, l), l, HasBrace(l)))

\* a func header; the handler is given the line as read
FuncLine ==
    /\ MoreInput
    /\ \E l \in LinesOfKind[corpus]["func"] :
          ReadLine(l, handle_func(AutoClose(G0, l), l, HasBrace(l)))

\* append(...)
AppendLine ==
    /\ MoreInput
    /\ \E l \in LinesOfKind[corpus]["append"] :
          ReadLine(l, handle_append(AutoClose(G0, l), Trimmed(l)))

\* dset(...) or dget(...): the line is emitted as it is
DictOpLine ==
    /\ MoreInput
    /\ \E l \in LinesOfKind[corpus]["dict_op"] :
          ReadLine(l, emit_no_log(emit_no_log(AutoClose(G0, l), Trimmed(l)), ";\n"))

\* any other line
RawLine ==
    /\ MoreInput
    /\ \E l \in LinesOfKind[corpus]["raw"] :
          ReadLine(l, handle_raw_statement(AutoClose(G0, l), Trimmed(l)))

\* fgets returns NULL: compile_file closes what is open and returns
EndOfInput ==
    /\ pc = "read"
    /\ Commit(compile_file_end(G0), "drained")
    /\ UNCHANGED src

\* main after compile_file: assemble, check, write, run the toolchain, exit.
\* gcc_ok is the result of the external compiler.
MainFinish ==
    /\ pc = "drained"
    /\ pc' = "exit"
    /\ g_output' = generate_output(g_funcs, g_main_code)
    /\ IF has_errors(g_errors)
       THEN /\ exit_status' = 1
            /\ UNCHANGED <<output_c, gcc_result, g_errors, log>>
       ELSE \E gcc_ok \in BOOLEAN :
               LET G == IF gcc_ok THEN G0
                        ELSE error(G0, "GCC compilation failed - check generated C code")
               IN  /\ output_c' = g_output'
                   /\ gcc_result' = IF gcc_ok THEN "ok" ELSE "failed"
                   /\ g_errors' = G.errors
                   /\ log' = G.log
                   /\ exit_status' = IF has_errors(G.errors) THEN 1 ELSE 0
    /\ UNCHANGED <<corpus, src, g_mode, g_log_mode, g_vars, g_blocks, g_funcs,
                   g_current_line, g_in_function, g_func_indent, g_main_code,
                   error_called>>

Next ==
    \/ SkipLine
    \/ CloseBraceLine
    \/ EndLine
    \/ ConstDeclLine
    \/ DeclLine
    \/ PrintLine
    \/ IfLine
    \/ ElifLine
    \/ ElseLine
    \/ WhileLine
    \/ ForLine
    \/ FuncLine
    \/ AppendLine
    \/ DictOpLine
    \/ RawLine
    \/ EndOfInput
    \/ MainFinish

Spec == Init /\ [][Next]_vars

\* ------------------------------------------------------------ properties

\* the line the last step read
LastLine == src[Len(src)]

\* a step of compile_file's loop that read a line of the given kind (one of
\* the lines of the input's corpus that take that branch of process_line)
ReadStep(kind) ==
    /\ pc = "read"
    /\ pc' = "read"
    /\ Len(src') = Len(src) + 1
    /\ src'[Len(src')] \in LinesOfKind[corpus][kind]

EndsWith(text, tail) ==
    /\ Len(text) >= Len(tail)
    /\ From(text, Len(text) - Len(tail) + 1) = tail

\* the buffer emit_no_log appends to
ActiveBuffer(in_function, funcs, main_code) ==
    IF in_function
    THEN IF Len(funcs) > 0 THEN funcs[Len(funcs)].body ELSE ""
    ELSE main_code

\* the number of '{' minus the number of '}' in C text from position i on,
\* string literals excluded
RECURSIVE BraceExcess(_, _, _)
BraceExcess(text, i, in_string) ==
    IF i > Len(text) THEN 0
    ELSE IF in_string /\ ch(text, i) = "\\" THEN BraceExcess(text, i + 2, in_string)
    ELSE IF ch(text, i) = "\"" THEN BraceExcess(text, i + 1, ~in_string)
    ELSE (IF in_string THEN 0
          ELSE IF ch(text, i) = "{" THEN 1
          ELSE IF ch(text, i) = "}" THEN -1
          ELSE 0)
         + BraceExcess(text, i + 1, in_string)

\* C1: when the pass finishes with no error-severity record, the assembled
\* user code (prototypes, function wrappers and bodies, main wrapper and
\* body) has as many '{' as '}' outside string literals.
C1_BraceBalance ==
    (pc = "drained" /\ ~has_errors(g_errors))
        => BraceExcess(UserCode(g_funcs, g_main_code), 1, FALSE) = 0

\* A source that is only missing its "end" lines: no '{', no "end" or '}'
\* line, only statements and if / elif / else / while headers with a
\* condition, every elif and else aligned with the if or elif it continues
\* and separated from it by deeper-indented lines only, and no more headers
\* than the block stack holds.
IndentOf(l) == get_indent(StripComment(l))

HasCondition(l) ==
    CASE LineKind(l) = "if" -> HeaderCondition(From(Trimmed(l), 3), FALSE) # ""
      [] LineKind(l) = "elif" -> HeaderCondition(From(Trimmed(l), 5), FALSE) # ""
      [] LineKind(l) = "while" -> HeaderCondition(From(Trimmed(l), 6), FALSE) # ""
      [] OTHER -> TRUE

ContinuesChain(lines, k) ==
    \E j \in 1..(k - 1) :
        /\ LineKind(lines[j]) \in {"if", "elif"}
        /\ IndentOf(lines[j]) = IndentOf(lines[k])
        /\ \A m \in (j + 1)..(k - 1) : IndentOf(lines[m]) > IndentOf(lines[k])

OnlyEndMissing(lines) ==
    /\ Len(lines) <= MAX_BLOCKS
    /\ \A k \in 1..Len(lines) :
          /\ LineKind(lines[k]) \in {"if", "elif", "else", "while", "raw"}
          /\ strchr(lines[k], "{") = 0
          /\ HasCondition(lines[k])
          /\ LineKind(lines[k]) \in {"elif", "else"} => ContinuesChain(lines, k)

\* C2: at end of input a source that is only missing its "end" lines has no
\* error-severity record in the modes optimized, debug and debug_opt, and in
\* the modes raw and debug_raw has an error-severity record for each block
\* still open, carrying that block's opening line.
C2_MissingEndOnly ==
    [][(pc = "read" /\ pc' = "drained" /\ OnlyEndMissing(src))
          => IF g_mode \in {"raw", "debug_raw"}
             THEN \A i \in 1..Len(g_blocks) :
                     \E e \in 1..Len(g_errors') :
                        /\ g_errors'[e].severity = "error"
                        /\ g_errors'[e].line_num = g_blocks[i].line_num
             ELSE ~has_errors(g_errors')]_vars

\* C3: once a handler has reported an error-severity condition the remaining
\* lines are still processed (the process does not die in the pass), and at
\* exit no output.c has been written and the status is 1.
C3_ErrorBlocksOutput ==
    error_called
        => /\ pc # "crashed"
           /\ pc = "exit" => (output_c = "" /\ exit_status = 1)

\* the events of the log, by position
IsOpen(i) == log[i].ev = "BLOCK_OPEN"

IsClose(i) == log[i].ev = "BLOCK_CLOSE"

\* C4: in a compile that ends with no error-severity record every BLOCK_OPEN
\* event is followed by exactly one BLOCK_CLOSE event carrying its line as
\* the opening line, and every BLOCK_CLOSE event has such a BLOCK_OPEN
\* before it.
C4_OpenClosePairs ==
    (pc \in {"drained", "exit"} /\ ~has_errors(g_errors))
        => /\ \A i \in 1..Len(log) :
                IsOpen(i)
                   => Cardinality({j \in (i + 1)..Len(log) :
                                     IsClose(j) /\ log[j].orig = log[i].line}) = 1
           /\ \A j \in 1..Len(log) :
                IsClose(j)
                   => \E i \in 1..(j - 1) : IsOpen(i) /\ log[i].line = log[j].orig

\* a logged compile without errors in which a block nested in another one
\* was closed on a later line than it was opened on
C4_Witness ==
    /\ pc = "drained"
    /\ ~has_errors(g_errors)
    /\ \E i, j, k \in 1..Len(log) :
          /\ j = i + 1 /\ j < k
          /\ IsOpen(i) /\ IsOpen(j) /\ IsClose(k)
          /\ log[k].orig = log[j].line
          /\ log[k].line > log[k].orig

\* the iterable of the for-in header on line n and how it was declared
IterableAt(n) == IterableOf(AfterIn(AfterIdent(trim_left(From(Trimmed(src[n]), 4)))))

IterableKind(n) ==
    IF ch(IterableAt(n), 1) = "\"" THEN "string"
    ELSE IF \E j \in 1..(n - 1) : Trimmed(src[j]) = "string " \o IterableAt(n)
    THEN "string"
    ELSE IF \E j \in 1..(n - 1) : Trimmed(src[j]) = "list " \o IterableAt(n)
    THEN "list"
    ELSE "other"

CountCloseBraces(text) == Cardinality({i \in 1..Len(text) : ch(text, i) = "}"})

\* a step that pops exactly the for-in block on top of the stack, outside
\* any function
ClosesForIn ==
    /\ Len(g_blocks) > 0
    /\ g_blocks[Len(g_blocks)].type = "for_in"
    /\ g_blocks' = SubSeq(g_blocks, 1, Len(g_blocks) - 1)
    /\ g_funcs = <<>> /\ g_funcs' = <<>>
    /\ IterableKind(g_blocks[Len(g_blocks)].line_num) \in {"string", "list"}

\* C5: closing a for-in block, by dedent, "end", '}' or the end of input,
\* emits two '}' when the iterable is a string and one '}' when it is a list.
C5_ForInClosure ==
    [][ClosesForIn
          => CountCloseBraces(From(g_main_code', Len(g_main_code) + 1))
               = IF IterableKind(g_blocks[Len(g_blocks)].line_num) = "string"
                 THEN 2 ELSE 1]_vars

\* the expression handle_print extracts from a print line
PrintExpr(l) ==
    replace_time_funcs(TrimInPlace(SubSeq(Trimmed(l), strchr(Trimmed(l), "(") + 1,
                                          strrchr(Trimmed(l), ")") - 1)))

\* the text after the leading identifier of an expression
IndexPart(expr) == From(trim(expr), Len(LeadingIdent(trim(expr))) + 1)

\* C6: print(L[i]) for a variable L of type list emits
\* printf("%d\n", (int)(L.data[i]));
C6_PrintListElement ==
    [][(/\ ReadStep("print")
        /\ LeadingIdent(trim(PrintExpr(src'[Len(src')]))) # ""
        /\ get_var_type(G0, LeadingIdent(trim(PrintExpr(src'[Len(src')])))) = "list"
        /\ ch(IndexPart(PrintExpr(src'[Len(src')])), 1) = "[")
          => EndsWith(ActiveBuffer(g_in_function', g_funcs', g_main_code'),
                      "printf(\"%d\\n\", (int)("
                      \o LeadingIdent(trim(PrintExpr(src'[Len(src')])))
                      \o ".data" \o IndexPart(PrintExpr(src'[Len(src')]))
                      \o "));\n")]_vars

\* The type of an expression by the inference rules as they are documented:
\* literals first, then an indexed list or string variable (its element,
\* int), then the type of the leading identifier, otherwise int.
DocumentedType(G, expr) ==
    LET e == trim(expr)
        V == LeadingIdent(e)
    IN  IF ch(e, 1) = "\"" THEN "string"
        ELSE IF e \in {"true", "false"} THEN "bool"
        ELSE IF ch(e, 1) = "(" /\ strchr(e, ",") > 0 THEN "tuple"
        ELSE IF ch(e, 1) = "[" THEN "list"
        ELSE IF ch(e, 1) = "{" THEN "dict"
        ELSE IF e # "" /\ strchr(e, ".") > 0 /\ IsNumeric(e, {".", "-"}) THEN "float"
        ELSE IF e # "" /\ IsNumeric(e, {"-"}) THEN "int"
        ELSE IF V # "" /\ ch(IndexPart(e), 1) = "["
                /\ get_var_type(G, V) \in {"list", "string"} THEN "int"
        ELSE IF V # "" /\ get_var_type(G, V) # "unknown" THEN get_var_type(G, V)
        ELSE "int"

\* the form of an emitted print statement
PrintForm(stmt) ==
    IF starts_with(stmt, "print_list(&") THEN "list"
    ELSE IF starts_with(stmt, "print_tuple(&") THEN "tuple"
    ELSE IF starts_with(stmt, "printf(\"%f\\n\", ") THEN "float"
    ELSE IF starts_with(stmt, "printf(\"%d\\n\", (int)(") THEN "int"
    ELSE IF starts_with(stmt, "printf(\"%s\\n\", (")
            /\ EndsWith(stmt, ") ? \"true\" : \"false\");\n") THEN "bool"
    ELSE IF starts_with(stmt, "printf(\"%s\\n\", ") THEN "string"
    ELSE "none"

\* the form selected for a type: %d with an (int) cast for every type that
\* is not string, bool, float, list or tuple
FormFor(type) ==
    IF type \in {"string", "bool", "float", "list", "tuple"} THEN type ELSE "int"

\* C7: for every print(expr) with an expression, at top level, the emitted
\* statement has the form selected by the type of expr.
C7_PrintFormByType ==
    [][(/\ ReadStep("print")
        /\ g_blocks = <<>> /\ ~g_in_function
        /\ strchr(Trimmed(src'[Len(src')]), ")") > 0
        /\ PrintExpr(src'[Len(src')]) # "")
          => PrintForm(From(g_main_code', Len(g_main_code) + 1))
               = FormFor(DocumentedType(G0, PrintExpr(src'[Len(src')])))]_vars

\* An identifier of a statement is the part of a maximal run of letters,
\* digits and '_' from its first letter or '_' on.
LastBreak(text, b) == Max({0} \cup {k \in 1..(b - 1) : ~IsIdentChar(ch(text, k))})

IdentStart(text, b) ==
    /\ isalpha(ch(text, b)) \/ ch(text, b) = "_"
    /\ \A k \in (LastBreak(text, b) + 1)..(b - 1) : isdigit(ch(text, k))

IdentEnd(text, b) == Min({e \in b..Len(text) : ~IsIdentChar(ch(text, e + 1))})

\* ".data" belongs after position e: an identifier of the set lists ends
\* there and is immediately followed by '['
DataPoint(text, lists, e) ==
    /\ ch(text, e + 1) = "["
    /\ \E b \in 1..e :
          /\ IdentStart(text, b)
          /\ IdentEnd(text, b) = e
          /\ SubSeq(text, b, e) \in lists

RECURSIVE WithData(_, _, _)
WithData(text, lists, i) ==
    IF i > Len(text) THEN ""
    ELSE ch(text, i) \o (IF DataPoint(text, lists, i) THEN ".data" ELSE "")
         \o WithData(text, lists, i + 1)

\* the names registered with type list
ListVars == {g_vars[i].name : i \in {k \in 1..Len(g_vars) : g_vars[k].type = "list"}}

\* the names some line read so far has declared with type list
DeclaredList ==
    {LeadingIdent(trim_left(From(Trimmed(src[j]), 6))) :
        j \in {k \in 1..Len(src) : LineKind(src[k]) = "decl"
                                   /\ starts_with(Trimmed(src[k]), "list ")}}

\* a statement as the copy loop of handle_raw_statement reads it: trimmed,
\* and with the time-function calls it holds, if any, substituted
SubstitutedText(l) ==
    IF strstr(Trimmed(l), ".now()") = 0
    THEN Trimmed(l)
    ELSE replace_time_funcs(Trimmed(l))

\* C8 as stated: once V has been declared with type list, every later raw
\* statement is emitted with V[ as V.data[ and everything else unchanged
\* (the statement taken with its time-function calls substituted).
C8_OnceDeclaredList ==
    [][ReadStep("raw")
          => \A text \in {SubstitutedText(src'[Len(src')])},
                lists \in {DeclaredList} :
                EndsWith(ActiveBuffer(g_in_function', g_funcs', g_main_code'),
                         WithData(text, lists, 1) \o ";\n")]_vars

\* C8: while V is registered with type list, every raw statement is emitted
\* with each identifier V immediately followed by '[' as V.data[ and every
\* other identifier unchanged (the statement taken with its time-function
\* calls substituted).
C8_ListIndexRewrite ==
    [][ReadStep("raw")
          => \A text \in {SubstitutedText(src'[Len(src')])},
                lists \in {ListVars} :
                EndsWith(ActiveBuffer(g_in_function', g_funcs', g_main_code'),
                         WithData(text, lists, 1) \o ";\n")]_vars

\* a raw statement indexing the list L and the undeclared x has been emitted
C8_Witness ==
    /\ pc = "read"
    /\ Len(src) >= 2
    /\ src[1] = "list L"
    /\ LastLine = "L[0] = L[1] + x[2]"
    /\ EndsWith(g_main_code, "L.data[0] = L.data[1] + x[2];\n")

\* C9: the inside-function flag is set exactly when a func block is on the
\* block stack.
C9_InFunctionIffFuncOpen ==
    g_in_function <=> \E i \in 1..Len(g_blocks) : g_blocks[i].type = "func"

\* C10: when no error-severity condition occurred in the pass, whatever the
\* number of warnings, output.c is written with the assembled text, the C
\* toolchain is run, and the exit status is 0 if the toolchain succeeds.
C10_WarningsOnly ==
    (pc = "exit" /\ ~error_called)
        => /\ output_c = generate_output(g_funcs, g_main_code)
           /\ gcc_result \in {"ok", "failed"}
           /\ gcc_result = "ok" => exit_status = 0

\* a compile that had more warnings than the error list holds and exited
\* with 0
C10_Witness ==
    /\ pc = "exit"
    /\ ~error_called
    /\ Len(src) > MAX_ERRORS
    /\ Len(g_errors) = MAX_ERRORS
    /\ \A i \in 1..Len(g_errors) : g_errors[i].severity = "warning"
    /\ gcc_result = "ok"
    /\ output_c # ""
    /\ exit_status = 0

\* the header line that pushed the block b ended with '{'
OpenedWithBrace(b) == HasBrace(src[b.line_num])

\* the positions of the records a step adds to the error list
NewRecords == (Len(g_errors) + 1)..Len(g_errors')

\* the records a step adds that carry the given line number
NewRecordsAt(n) == {e \in NewRecords : g_errors'[e].line_num = n}

NonRawModes == {"optimized", "debug", "debug_opt"}

\* C11: at end of input, in every mode, each block still on the stack whose
\* header ended with '{' gets exactly one record, of severity error, carrying
\* the block's opening line; each other block still on the stack gets no
\* record in the modes optimized, debug and debug_opt; and the stack is
\* empty afterwards.
C11_UnclosedBraceBlocks ==
    [][(pc = "read" /\ pc' = "drained")
          => /\ g_blocks' = <<>>
             /\ \A i \in 1..Len(g_blocks) :
                   IF OpenedWithBrace(g_blocks[i])
                   THEN /\ Cardinality(NewRecordsAt(g_blocks[i].line_num)) = 1
                        /\ \A e \in NewRecordsAt(g_blocks[i].line_num) :
                              g_errors'[e].severity = "error"
                   ELSE g_mode \in NonRawModes
                           => NewRecordsAt(g_blocks[i].line_num) = {}]_vars

\* an "end" line met a top block whose header ended with '{', or a '}' line
\* met a top block whose header did not
MixedClose ==
    /\ Len(g_blocks) > 0
    /\ \/ ReadStep("end") /\ OpenedWithBrace(g_blocks[Len(g_blocks)])
       \/ ReadStep("close_brace") /\ ~OpenedWithBrace(g_blocks[Len(g_blocks)])

\* C12: a close by the other discipline's token adds exactly one record, a
\* warning, and pops exactly the top block.
C12_MixedCloseWarns ==
    [][MixedClose
          => /\ Len(g_errors') = Len(g_errors) + 1
             /\ g_errors'[Len(g_errors')].severity = "warning"
             /\ g_blocks' = SubSeq(g_blocks, 1, Len(g_blocks) - 1)]_vars

\* C13: a '}' line read while no block on the stack has a header that ended
\* with '{' (the stack empty or not) adds an error-severity record.
C13_StrayCloseBrace ==
    [][(/\ ReadStep("close_brace")
        /\ \A i \in 1..Len(g_blocks) : ~OpenedWithBrace(g_blocks[i]))
          => \E e \in NewRecords : g_errors'[e].severity = "error"]_vars

TimeCalls == {"time.now()", "date.now()", "clock.now()"}

\* the C text emitted so far: the function bodies and the main body
EmittedText(funcs, main_code) == FunctionBodies(funcs, 1) \o main_code

\* C15: whatever statement form a line has, no call of time.now(),
\* date.now() or clock.now() is left in the emitted C.
C15_NoTimeCallSurvives ==
    \A call \in TimeCalls : strstr(EmittedText(g_funcs, g_main_code), call) = 0

\* the function name handle_func reads from a func header
FuncNameOf(l) ==
    LET p0 == trim_left(From(trim_left(l), 5))
        p1 == IF HasBrace(l) THEN strip_trailing_brace(p0) ELSE p0
    IN  LeadingIdent(IF strchr(p1, ":") > 0
                     THEN SubSeq(p1, 1, strchr(p1, ":") - 1)
                     ELSE p1)

\* C16: a "func main" line, in any state, adds exactly one record, a
\* warning, and leaves the function table, the block stack and the
\* inside-function flag as they were.
C16_FuncMainIgnored ==
    [][(ReadStep("func") /\ FuncNameOf(src'[Len(src')]) = "main")
          => /\ Len(g_errors') = Len(g_errors) + 1
             /\ g_errors'[Len(g_errors')].severity = "warning"
             /\ g_funcs' = g_funcs
             /\ g_blocks' = g_blocks
             /\ g_in_function' = g_in_function]_vars

\* the first token of a line
FirstToken(l) == LeadingIdent(Trimmed(l))

\* a step that reads a line process_line takes to its handlers in a mode
\* with auto-close: not empty, not '}' or "end", first token not elif / else
AutoClosedLine ==
    /\ pc = "read"
    /\ Len(src') = Len(src) + 1
    /\ g_mode \in NonRawModes
    /\ LineKind(src'[Len(src')]) \notin {"empty", "close_brace", "end"}
    /\ FirstToken(src'[Len(src')]) \notin {"elif", "else"}

\* C17: in a mode with auto-close, when the handler of such a line starts,
\* the stack is empty, or its top block has a header that ended with '{',
\* or its top block's opening indent is less than the line's indent.
C17_AutoCloseToIndent ==
    [][AutoClosedLine
          => \A blocks \in {AutoClose(G0, src'[Len(src')]).blocks} :
                \/ Len(blocks) = 0
                \/ OpenedWithBrace(blocks[Len(blocks)])
                \/ blocks[Len(blocks)].indent < IndentOf(src'[Len(src')])]_vars

\* a step that read an elif or else line and returned from its handler
ChainStep == ReadStep("elif") \/ ReadStep("else")

\* C18: an elif or else line leaves the stack's depth and every entry's
\* opening indent and opening line as they were; the entries under the top
\* are unchanged, and the top entry changes in its kind only, which becomes
\* that of the line. Nothing is pushed onto an empty stack.
C18_ChainRewritesKindOnly ==
    [][ChainStep
          => /\ Len(g_blocks') = Len(g_blocks)
             /\ \A i \in 1..Len(g_blocks) :
                   /\ g_blocks'[i].indent = g_blocks[i].indent
                   /\ g_blocks'[i].line_num = g_blocks[i].line_num
                   /\ g_blocks'[i] =
                         IF i = Len(g_blocks)
                         THEN [g_blocks[i] EXCEPT
                                 !.type = LineKind(src'[Len(src')])]
                         ELSE g_blocks[i]]_vars

\* C19: a block of an if-chain keeps the closing discipline of its "if"
\* header through every elif and else: its brace flag says whether that
\* header ended with '{'.
C19_ChainKeepsDiscipline ==
    \A i \in 1..Len(g_blocks) :
        g_blocks[i].type \in {"if", "elif", "else"}
            => g_blocks[i].uses_braces = OpenedWithBrace(g_blocks[i])

\* C20: an elif or else line adds an error-severity record exactly when the
\* stack is empty or the top block's kind is neither "if" nor "elif".
C20_ChainErrorIffNoOpenIf ==
    [][ChainStep
          => ((\E e \in NewRecords : g_errors'[e].severity = "error")
                 <=> (\/ Len(g_blocks) = 0
                      \/ g_blocks[Len(g_blocks)].type \notin {"if", "elif"}))]_vars

\* the positions of the func blocks on the stack
FuncBlocks == {i \in 1..Len(g_blocks) : g_blocks[i].type = "func"}

\* C21: every block under a func block is a func block (no function is open
\* inside an if, while, for or for-in block), and at most one function is
\* open at a time.
C21_FuncNotNested ==
    /\ \A j \in FuncBlocks : \A i \in 1..(j - 1) : g_blocks[i].type = "func"
    /\ Cardinality(FuncBlocks) <= 1

\* C22: in every mode the opening indents of the blocks on the stack
\* increase strictly from the bottom to the top.
C22_IndentsIncrease ==
    \A i \in 1..(Len(g_blocks) - 1) : g_blocks[i].indent < g_blocks[i + 1].indent

\* a step that reads a line whose handler registers a variable: a
\* declaration, a for-to header or a for-in header
RegisterStep ==
    /\ pc = "read"
    /\ pc' = "read"
    /\ Len(src') = Len(src) + 1
    /\ \E kind \in {"decl", "const_decl", "for"} :
          src'[Len(src')] \in LinesOfKind[corpus][kind]

\* the text of a declaration after "const ", if it is there
DeclText(l) ==
    IF starts_with(Trimmed(l), "const ") THEN trim_left(From(Trimmed(l), 6))
    ELSE Trimmed(l)

\* the type keywords the declaration l starts with
DeclKeywords(l) == {i \in 1..Len(DeclTypes) : starts_with(DeclText(l), DeclTypes[i].kw)}

\* the text of a for header after "for "
ForText(l) == trim_left(From(trim_left(l), 4))

IsForLine(l) == starts_with(Trimmed(l), "for ")

IsForIn(l) == IsForLine(l) /\ strstr(ForText(l), " in ") > 0

\* the name the line l registers: the declared name, the loop variable or
\* its stand-in, and "" when the declaration is rejected before it registers
RegisteredName(l) ==
    IF IsForIn(l) THEN OrElse(LeadingIdent(ForText(l)), "_item")
    ELSE IF IsForLine(l) THEN OrElse(LeadingIdent(ForText(l)), "_i")
    ELSE IF DeclKeywords(l) = {} THEN ""
    ELSE LeadingIdent(trim_left(From(DeclText(l),
                                     Len(DeclTypes[Min(DeclKeywords(l))].kw) + 1)))

\* the iterable of a for-in header, or its stand-in
ForInIterable(l) == OrElse(IterableOf(AfterIn(AfterIdent(ForText(l)))), "\"\"")

\* the type a declaration or a for-to header registers its name with
DeclaredType(l) ==
    IF IsForLine(l) THEN "int"
    ELSE IF DeclKeywords(l) = {} THEN ""
    ELSE DeclTypes[Min(DeclKeywords(l))].vt

\* what each line of the corpora hands to register_var, parsed once
Registered ==
    [l \in UNION {Lines(c) : c \in Corpora} |->
        [name |-> RegisteredName(l), for_in |-> IsForIn(l),
         iterable |-> ForInIterable(l), type |-> DeclaredType(l),
         is_const |-> starts_with(Trimmed(l), "const ")]]

\* the entry the line l asks the symbol table to hold, given the symbol table
\* it meets: a for-in variable is a string over the keys of a dict and an int
\* otherwise
RegisteredEntry(l, G) ==
    [name |-> Registered[l].name,
     type |-> IF Registered[l].for_in
              THEN IF ForInType(G, Registered[l].iterable) = "dict"
                   THEN "string" ELSE "int"
              ELSE Registered[l].type,
     is_const |-> Registered[l].is_const]

\* the positions of a name in a symbol table
EntriesOf(table, name) == {i \in 1..Len(table) : table[i].name = name}

\* the globals process_line leaves after a registering line l read with the
\* globals G
AfterRegisteringLine(G, l) ==
    IF IsForLine(l) THEN handle_for(AutoClose(G, l), l, HasBrace(l))
    ELSE handle_variable_decl(AutoClose(G, l), Trimmed(l),
                              starts_with(Trimmed(l), "const "))

\* the globals with the entries of a name taken out of the symbol table; the
\* main buffer and the event log, which no handler reads, are emptied
Unregistered(G, name) ==
    [G EXCEPT !.vars = SelectSeq(@, LAMBDA v : v.name # name),
              !.main_code = "", !.log = <<>>]

\* C23 as stated: after every registration the table holds exactly one entry
\* for the registered name, with the type and const flag of that
\* registration, and the number of entries never decreases.
C23_EveryRegistrationEntered ==
    [][/\ Len(g_vars') >= Len(g_vars)
       /\ RegisterStep =>
             \A l \in {src'[Len(src')]} :
                Registered[l].name # "" =>
                   \E i \in 1..Len(g_vars') :
                      /\ g_vars'[i] = RegisteredEntry(l, G0)
                      /\ EntriesOf(g_vars', Registered[l].name) = {i}]_vars

\* C23: no name has two entries and no entry is ever removed or moved. A
\* registration of a name the table holds overwrites that entry's type and
\* const flag, leaves the rest of the table alone and adds the records the
\* line adds when the name is new, no more. A new name is appended when the
\* table has room; when the table is full it is not entered, the table is
\* unchanged and error() is called. No other step changes the table.
C23_RegistrationOverwrites ==
    [][IF ~RegisterStep THEN g_vars' = g_vars
       ELSE \A l \in {src'[Len(src')]} :
            \A entry \in {RegisteredEntry(l, G0)} :
            \A at \in {EntriesOf(g_vars, entry.name)} :
               /\ \A i, k \in 1..Len(g_vars') :
                     g_vars'[i].name = g_vars'[k].name => i = k
               /\ Len(g_vars') >= Len(g_vars)
               /\ \A i \in 1..Len(g_vars) : g_vars'[i].name = g_vars[i].name
               /\ entry.name = "" => g_vars' = g_vars
               /\ (entry.name # "" /\ at # {}) =>
                     /\ g_vars' = [g_vars EXCEPT ![Min(at)] = entry]
                     /\ Len(g_errors') =
                           Len(AfterRegisteringLine(Unregistered(G0, entry.name), l).errors)
               /\ (entry.name # "" /\ at = {} /\ Len(g_vars) < MAX_VARS) =>
                     g_vars' = Append(g_vars, entry)
               /\ (entry.name # "" /\ at = {} /\ Len(g_vars) >= MAX_VARS) =>
                     /\ g_vars' = g_vars
                     /\ error_called']_vars

\* a list declaration has re-registered the name an int declaration entered
C23_Witness ==
    /\ Len(src) = 2
    /\ src[1] = "int a ="
    /\ src[2] = "list a"
    /\ g_vars = <<[name |-> "a", type |-> "list", is_const |-> FALSE]>>
    /\ Len(g_errors) = 1

\* the number of error-severity records with the message msg that the step adds
NewErrors(msg) ==
    Cardinality({e \in NewRecords : /\ g_errors'[e].message = msg
                                    /\ g_errors'[e].severity = "error"})

\* a step that registers a new name with the symbol table full
VarOverflowStep ==
    /\ RegisterStep
    /\ Registered[src'[Len(src')]].name # ""
    /\ EntriesOf(g_vars, Registered[src'[Len(src')]].name) = {}
    /\ Len(g_vars) >= MAX_VARS

\* a step whose handler pushes a block with the block stack full: an if,
\* while or for header, or a func header with a name other than main
BlockOverflowStep ==
    /\ \/ ReadStep("if")
       \/ ReadStep("while")
       \/ ReadStep("for")
       \/ ReadStep("func") /\ FuncNameOf(src'[Len(src')]) \notin {"", "main"}
    /\ Len(AutoClose(G0, src'[Len(src')]).blocks) >= MAX_BLOCKS

\* a step that declares a function with the function table full
FuncOverflowStep ==
    /\ ReadStep("func")
    /\ FuncNameOf(src'[Len(src')]) \notin {"", "main"}
    /\ Len(g_funcs) >= MAX_FUNCS

\* C24: a new variable met with a full symbol table, a block pushed on a full
\* stack and a function declared with a full function table each add exactly
\* one error-severity record and leave the full table as it is; for the
\* function, the inside-function flag and the block stack are as the
\* auto-close of the line left them.
C24_OverflowDiscarded ==
    [][/\ VarOverflowStep =>
             /\ NewErrors("Maximum variable limit reached") = 1
             /\ g_vars' = g_vars
       /\ BlockOverflowStep =>
             /\ NewErrors("Maximum block nesting depth exceeded") = 1
             /\ g_blocks' = AutoClose(G0, src'[Len(src')]).blocks
       /\ FuncOverflowStep =>
             /\ NewErrors("Maximum function limit reached") = 1
             /\ g_funcs' = g_funcs
             /\ g_in_function' = AutoClose(G0, src'[Len(src')]).in_function
             /\ g_blocks' = AutoClose(G0, src'[Len(src')]).blocks]_vars

\* the arguments of an append line: the text between '(' and the last ')'
AppendArgs(l) == SubSeq(Trimmed(l), strchr(Trimmed(l), "(") + 1, strrchr(Trimmed(l), ")") - 1)

\* the list name and the value of an append line
AppendList(l) == trim(SubSeq(AppendArgs(l), 1, strchr(AppendArgs(l), ",") - 1))

AppendValue(l) == trim(From(AppendArgs(l), strchr(AppendArgs(l), ",") + 1))

\* append(L, V) with both parentheses, the comma, a list name and a value
WellFormedAppend(l) ==
    /\ strchr(Trimmed(l), "(") > 0
    /\ strrchr(Trimmed(l), ")") > 0
    /\ strchr(AppendArgs(l), ",") > 0
    /\ AppendList(l) # ""
    /\ AppendValue(l) # ""

\* C25: a well-formed append(L, V) adds exactly one record, of severity
\* error, when L is registered with a type other than list, and no record
\* when L is a list or is not registered; in both cases the buffer being
\* written ends with list_append(&L, V); where V has its time functions
\* substituted.
C25_AppendToNonList ==
    [][(ReadStep("append") /\ WellFormedAppend(src'[Len(src')])) =>
          \A L \in {AppendList(src'[Len(src')])} :
          \A V \in {replace_time_funcs(AppendValue(src'[Len(src')]))} :
             /\ EndsWith(ActiveBuffer(g_in_function', g_funcs', g_main_code'),
                         "list_append(&" \o L \o ", " \o V \o ");\n")
             /\ IF get_var_type(G0, L) \notin {"list", "unknown"}
                THEN /\ Cardinality(NewRecords) = 1
                     /\ \A e \in NewRecords : g_errors'[e].severity = "error"
                ELSE NewRecords = {}]_vars

\* a step of compile_file's loop that reads an if or while header without a
\* condition, however the step ends
EmptyConditionStep(kind) ==
    /\ pc = "read"
    /\ Len(src') = Len(src) + 1
    /\ src'[Len(src')] \in LinesOfKind[corpus][kind]
    /\ ~HasCondition(src'[Len(src')])

\* the step went on to the next line, added one record, of severity error,
\* wrote the header and pushed a block of the given type on the blocks the
\* auto-close of the line left
RecoveredWith(header, type) ==
    /\ pc' = "read"
    /\ Cardinality(NewRecords) = 1
    /\ \A e \in NewRecords : g_errors'[e].severity = "error"
    /\ EndsWith(ActiveBuffer(g_in_function', g_funcs', g_main_code'), header)
    /\ Len(g_blocks') = Len(AutoClose(G0, src'[Len(src')]).blocks) + 1
    /\ g_blocks'[Len(g_blocks')].type = type
    /\ g_blocks'[Len(g_blocks')].line_num = g_current_line'

\* C26: an if header and a while header without a condition add one error
\* record, emit "if (1) {" and "while (0) {", push their block and let the
\* translation continue with the next line.
C26_EmptyConditionRecovers ==
    [][/\ EmptyConditionStep("if") => RecoveredWith("if (1) {\n", "if")
       /\ EmptyConditionStep("while") => RecoveredWith("while (0) {\n", "while")]_vars

\* C27: in every mode an "end" line read with blocks open pops the top block
\* and no other, whatever its own indent; read with no block open it adds
\* one record, of severity error, and leaves the stack, the inside-function
\* flag and the output buffers as they were.
C27_EndPopsOne ==
    [][ReadStep("end") =>
          IF Len(g_blocks) > 0
          THEN g_blocks' = SubSeq(g_blocks, 1, Len(g_blocks) - 1)
          ELSE /\ Cardinality(NewRecords) = 1
               /\ \A e \in NewRecords : g_errors'[e].severity = "error"
               /\ g_blocks' = g_blocks
               /\ g_in_function' = g_in_function
               /\ g_main_code' = g_main_code
               /\ g_funcs' = g_funcs]_vars

\* C28: in a non-raw mode an elif or else line that is accepted (the handler
\* reports nothing) continues a block whose opening indent is the line's own
\* indent.
C28_ChainAttachesAtOwnIndent ==
    [][(/\ ChainStep
        /\ g_mode \in NonRawModes
        /\ Len(g_errors) < MAX_ERRORS
        /\ NewRecords = {}) =>
          /\ Len(g_blocks) > 0
          /\ g_blocks[Len(g_blocks)].indent = IndentOf(src'[Len(src')])]_vars

\* C29: when compile_file has returned, no block is open, the inside-function
\* flag is false and the line counter is the number of lines read.
C29_DrainRestores ==
    pc = "drained" =>
       /\ Len(g_blocks) = 0
       /\ ~g_in_function
       /\ g_current_line = Len(src)

====
